---- MODULE Spec2Model ----
(***************************************************************************)
(* testImmutableClass (src/src/index.mocha.ts, lines 271-394) as a state   *)
(* machine.  The checker is the program; the candidate class, the samples  *)
(* and the options are its inputs.  The candidate's answers are drawn when *)
(* the checker first asks for them and kept, so that the candidate is a    *)
(* deterministic function of its arguments.                                *)
(***************************************************************************)
EXTENDS Integers, Sequences, FiniteSets, TLC

\* ------------------------------------------------------------- bounds
\* Plain-data values are 0..MaxVal (deep equality is equality of the value).
MaxVal == 2
\* Longest sample array.
MaxLen == 3
\* Longest PROPERTIES list.
MaxProps == 2

Vals == 0..MaxVal

\* ------------------------------------------------------------- inputs
PROPERTY_KEYS ==
  { "name", "defaultValue", "possibleValues", "validate", "immutableClass",
    "immutableClassArray", "immutableClassLookup", "equal", "toJS", "type",
    "contextTransform", "preserveUndefined", "emptyArrayIsOk" }

\* Keys a descriptor of the inputs may carry: two recognized ones and one not.
KeyPool == { "name", "type", "bogus" }

RECURSIVE KeySeqs(_)
KeySeqs(n) ==
  IF n = 0 THEN { <<>> }
  ELSE KeySeqs(n - 1) \cup
       { Append(s, key) : s \in { t \in KeySeqs(n - 1) : Len(t) = n - 1 },
                          key \in KeyPool }

NoRepeat(s) == \A a, b \in 1..Len(s) : a # b => s[a] # s[b]

HasKey(s, key) == \E a \in 1..Len(s) : s[a] = key

\* A property descriptor: its own keys in enumeration order, and whether the
\* value under "name" is a string.
Descriptors ==
  { [keys |-> s, nameIsString |-> b] :
      s \in { t \in KeySeqs(Cardinality(KeyPool)) : NoRepeat(t) }, b \in BOOLEAN }

ValidDescriptors ==
  { d \in Descriptors : d.nameIsString => HasKey(d.keys, "name") }

RECURSIVE SeqsUpTo(_, _)
SeqsUpTo(S, n) ==
  IF n = 0 THEN { <<>> }
  ELSE SeqsUpTo(S, n - 1) \cup
       { Append(s, x) : s \in { t \in SeqsUpTo(S, n - 1) : Len(t) = n - 1 },
                        x \in S }

NoProperties == [kind |-> "absent", list |-> <<>>]

AllProperties ==
  { NoProperties, [kind |-> "notArray", list |-> <<>>] } \cup
  { [kind |-> "array", list |-> l] : l \in SeqsUpTo(ValidDescriptors, MaxProps) }

\* How the candidate's equals compares two instances of the class.
EqualsKinds == { "byName", "always", "leq" }

ClassNames == { <<>>, <<"A", "n">> }

Contexts == { "undefined", "weights" }

\* if (x) on an option that is undefined or a boolean.
Truthy(x) == x = "true"

\* The options argument: omitted, or with newThrows, context or both set.
OptionsArgs ==
  { [given |-> FALSE, newThrows |-> "undefined", context |-> "undefined"] } \cup
  { o \in [given : { TRUE }, newThrows : { "undefined", "true" }, context : Contexts] :
      Truthy(o.newThrows) \/ o.context # "undefined" }

ObjectsArgs ==
  { [isArray |-> FALSE, items |-> <<>>] } \cup
  { [isArray |-> TRUE, items |-> s] : s \in SeqsUpTo(Vals, MaxLen) }


\* ------------------------------------------------------------- state
VARIABLES
  ClassFn,        \* the candidate class
  objects,        \* the caller's sample array (fromJS may write to its cells)
  options,        \* the options argument
  pc,             \* position in testImmutableClass
  newThrows, context, className, instanceName, instance, m,
  i, objectCopy1, objectCopy2, inst, instValueOf, instValueCopy, instJSONCopy,
  j, k, objectJ, objectK,
  failure,        \* what testImmutableClass raised, if anything
  fromJSMemo, toJSMemo, toJSONMemo, ctorMemo, answers,  \* the candidate's answers so far
  calls,          \* candidate operations invoked so far
  fromJSLog,      \* the context each fromJS call site passed
  touched,        \* indices of the samples read so far
  objects0,       \* the sample array as the caller passed it
  nchecks, lastCheck  \* how many checks ran, and the last one

inputV == <<ClassFn, options, objects0>>
setupV == <<newThrows, context, className, instanceName>>
probeV == <<instance, m>>
sampleV == <<i, objectCopy1, objectCopy2, inst, instValueOf, instValueCopy, instJSONCopy>>
pairV == <<j, k, objectJ, objectK>>
memoV == <<fromJSMemo, toJSMemo, toJSONMemo, ctorMemo, answers>>
histV == <<calls, fromJSLog, touched>>
checkV == <<pc, failure, nchecks, lastCheck>>
vars == <<inputV, objects, setupV, probeV, sampleV, pairV, memoV, histV, checkV>>

\* ------------------------------------------------------------- values
NoInst == [isInst |-> FALSE, name |-> -1]
NoFailure == [msg |-> "none", where |-> -1, pair |-> <<>>]
NoCheck == [id |-> "none", a |-> -1, b |-> -1]

Failure(msg) == [msg |-> msg, where |-> -1, pair |-> <<>>]
\* A message that ends in `[in object ${i}]`.
Tagged(msg, idx) == [msg |-> msg, where |-> idx, pair |-> <<>>]
CheckId(id, a, b) == [id |-> id, a |-> a, b |-> b]

Length == Len(objects.items)

\* JSON.stringify and JSON.parse of plain data: the text of a value, and back.
JSONStringify(v) == <<"json", v>>
JSONParse(text) == text[2]

ToLowerCase(ch) == IF ch = "A" THEN "a" ELSE ch

\* ------------------------------------------------------------- candidate
UnknownFromJS == [known |-> FALSE, throws |-> FALSE, name |-> -1, mut |-> -1, isInst |-> FALSE]

\* A value other than v: what a candidate operation yields when it does not
\* yield v itself (an argument that fromJS wrote to, a state that is not the
\* plain value it was built from, a toJS that is not the state).
Overwritten(v) == (v + 1) % (MaxVal + 1)

\* What fromJS may do with a plain value v: throw, or return something (an
\* instance of the class with state n, or not an instance at all), leaving
\* its argument as it was or overwritten.
FromJSResults(v) ==
  { [known |-> TRUE, throws |-> TRUE, name |-> -1, mut |-> v, isInst |-> FALSE] } \cup
  { [known |-> TRUE, throws |-> FALSE, name |-> n, mut |-> mu, isInst |-> TRUE] :
      n \in { v, Overwritten(v) }, mu \in { v, Overwritten(v) } } \cup
  { [known |-> TRUE, throws |-> FALSE, name |-> v, mut |-> mu, isInst |-> FALSE] :
      mu \in { v, Overwritten(v) } }

FromJSAnswers(v, ctx) ==
  IF fromJSMemo[<<v, ctx>>].known THEN { fromJSMemo[<<v, ctx>>] } ELSE FromJSResults(v)

ToJSAnswers(n) == IF toJSMemo[n] # -1 THEN { toJSMemo[n] } ELSE { n, Overwritten(n) }

ToJSONAnswers(n) == IF toJSONMemo[n] # -1 THEN { toJSONMemo[n] } ELSE { n, Overwritten(n) }

\* new ClassFn(valueForm) for the value form of an instance with state n.
CtorResults(n) ==
  { [outcome |-> "throwsError", name |-> -1], [outcome |-> "throwsOther", name |-> -1] } \cup
  { [outcome |-> "returns", name |-> n2] : n2 \in { n, Overwritten(n) } }

CtorAnswers(n) == IF ctorMemo[n].outcome # "unknown" THEN { ctorMemo[n] } ELSE CtorResults(n)

Probes == { "toStringIsString", "equalsNull", "equalsArray", "equalsValueOf", "equalsLazyCopy" }

BoolAnswers(probe, n) ==
  IF answers[<<probe, n>>] = "unknown" THEN BOOLEAN ELSE { answers[<<probe, n>>] = "true" }

Told(probe, n, b) == [answers EXCEPT ![<<probe, n>>] = IF b THEN "true" ELSE "false"]

InstOf(r) == [isInst |-> r.isInst, name |-> r.name]

\* equals between the instance a and something the class built.
Equals(kind, a, b) ==
  /\ b.isInst
  /\ CASE kind = "byName" -> a.name = b.name
       [] kind = "always" -> TRUE
       [] OTHER -> a.name <= b.name


\* ------------------------------------------------------------- raising
\* Check, recording the failure and going on to the next statement.
Check_continue(id, ok, f, next) ==
  /\ nchecks' = nchecks + 1
  /\ lastCheck' = id
  /\ failure' = IF ok THEN failure ELSE f
  /\ pc' = next

\* One check of the function: it passes and control goes on, or it raises f
\* and the function is left.
Check(id, ok, f, next) ==
  /\ nchecks' = nchecks + 1
  /\ lastCheck' = id
  /\ failure' = IF ok THEN failure ELSE f
  /\ pc' = IF ok THEN next ELSE "done"

\* An exception of the candidate's own code: nothing catches it.
Throw(f) ==
  /\ failure' = f
  /\ pc' = "done"
  /\ UNCHANGED <<nchecks, lastCheck>>

Goto(next) ==
  /\ pc' = next
  /\ UNCHANGED <<failure, nchecks, lastCheck>>

\* ContextArg, with the call of the JSON round trip passing no context.
ContextArg_dropped(site) == IF site = "jsonCopy" THEN "undefined" ELSE context

\* The context a fromJS call site passes as its second argument.
ContextArg(site) == context

Logged(site) == fromJSLog \cup { [site |-> site, ctx |-> ContextArg(site)] }

Learned(v, ctx, r) == [fromJSMemo EXCEPT ![<<v, ctx>>] = r]

SetItem(idx, v) == [objects EXCEPT !.items[idx + 1] = v]

\* ------------------------------------------------------------- preconditions
CheckClassFn ==
  /\ pc = "start"
  /\ Check(CheckId("ClassFn", -1, -1), ClassFn.isFunction,
           Failure("ClassFn must be a constructor function"), "objects")
  /\ UNCHANGED <<inputV, objects, setupV, probeV, sampleV, pairV, memoV, histV>>

CheckObjects ==
  /\ pc = "objects"
  /\ Check(CheckId("objects", -1, -1), objects.isArray /\ Length # 0,
           Failure("objects must be a non-empty array of js to test"), "name")
  /\ UNCHANGED <<inputV, objects, setupV, probeV, sampleV, pairV, memoV, histV>>

CheckClassName ==
  /\ pc = "name"
  /\ newThrows' = options.newThrows
  /\ context' = options.context
  /\ className' = ClassFn.name
  /\ instanceName' = IF Len(ClassFn.name) < 1 THEN instanceName
                     ELSE <<ToLowerCase(Head(ClassFn.name))>> \o Tail(ClassFn.name)
  /\ Check(CheckId("name", -1, -1), ~(Len(ClassFn.name) < 1),
           Failure("Class must have a name of at least 1 letter"), "static")
  /\ UNCHANGED <<inputV, objects, probeV, sampleV, pairV, memoV, histV>>

\* ------------------------------------------------------------- phase A
\* CheckStaticMethods, without the expectation.
CheckStaticMethods_skipped ==
  /\ pc = "static"
  /\ Goto("probe")
  /\ UNCHANGED <<inputV, objects, setupV, probeV, sampleV, pairV, memoV, histV>>

CheckStaticMethods ==
  /\ pc = "static"
  /\ Check(CheckId("fromJS", -1, -1), ClassFn.hasFromJS,
           Failure("fromJS should exist"), "probe")
  /\ UNCHANGED <<inputV, objects, setupV, probeV, sampleV, pairV, memoV, histV>>

ProbeInstance ==
  /\ pc = "probe"
  /\ touched' = touched \cup { 0 }
  /\ IF ~ClassFn.hasFromJS
     THEN /\ Throw(Failure("fromJS is not a function"))
          /\ UNCHANGED <<objects, instance, fromJSMemo, calls, fromJSLog>>
     ELSE \E r \in FromJSAnswers(objects.items[1], ContextArg("probe")) :
            /\ fromJSMemo' = Learned(objects.items[1], ContextArg("probe"), r)
            /\ calls' = calls + 1
            /\ fromJSLog' = Logged("probe")
            /\ IF r.throws
               THEN /\ Throw(Failure("thrown by fromJS"))
                    /\ UNCHANGED <<objects, instance>>
               ELSE /\ Goto("methods")
                    /\ instance' = InstOf(r)
                    /\ objects' = SetItem(0, r.mut)
  /\ UNCHANGED <<inputV, setupV, m, sampleV, pairV, toJSMemo, toJSONMemo, ctorMemo, answers>>

InstanceMethods == <<"valueOf", "toString", "toJS", "toJSON", "equals">>

MethodMessage(name) ==
  CASE name = "valueOf" -> "Instance should implement valueOf"
    [] name = "toString" -> "Instance should implement toString"
    [] name = "toJS" -> "Instance should have a toJS function"
    [] name = "toJSON" -> "Instance should have a toJSON function"
    [] OTHER -> "Instance should have an equals function"

\* The five expectations on the probe instance, one per step, in order.
CheckInstanceMethod ==
  /\ pc = "methods"
  /\ \E ok \in BOOLEAN :
       Check(CheckId(InstanceMethods[m], -1, -1), ok, Failure(MethodMessage(InstanceMethods[m])),
             IF m = Len(InstanceMethods) THEN "props" ELSE "methods")
  /\ m' = IF m = Len(InstanceMethods) THEN m ELSE m + 1
  /\ UNCHANGED <<inputV, objects, setupV, instance, sampleV, pairV, memoV, histV>>

\* ------------------------------------------------------------- phase B
NameIsString(property) == HasKey(property.keys, "name") /\ property.nameIsString

\* The expectation that fails for the key at position q of a descriptor, if any.
KeyFails(property, q) == property.keys[q] \notin PROPERTY_KEYS \/ ~NameIsString(property)

PropertyFails(property) == \E q \in 1..Len(property.keys) : KeyFails(property, q)

PropertyFailure(property) ==
  LET q == CHOOSE q \in 1..Len(property.keys) :
             /\ KeyFails(property, q)
             /\ \A q2 \in 1..(q - 1) : ~KeyFails(property, q2)
  IN IF property.keys[q] \notin PROPERTY_KEYS
     THEN Failure("expected PROPERTY_KEYS to include the key")
     ELSE Failure("expected property.name to be a string")

\* What the check of ClassFn.PROPERTIES raises: NoFailure when it passes.
PropertiesFailure(P) ==
  IF P.kind = "absent" THEN NoFailure
  ELSE IF P.kind # "array" THEN Failure("PROPERTIES should be an array")
  ELSE IF \E d \in 1..Len(P.list) : PropertyFails(P.list[d])
       THEN LET d == CHOOSE d \in 1..Len(P.list) :
                       /\ PropertyFails(P.list[d])
                       /\ \A d2 \in 1..(d - 1) : ~PropertyFails(P.list[d2])
            IN PropertyFailure(P.list[d])
       ELSE NoFailure

CheckProperties ==
  /\ pc = "props"
  /\ Check(CheckId("PROPERTIES", -1, -1), PropertiesFailure(ClassFn.PROPERTIES) = NoFailure,
           PropertiesFailure(ClassFn.PROPERTIES), "loop")
  /\ i' = 0
  /\ UNCHANGED <<inputV, objects, setupV, probeV, objectCopy1, objectCopy2, inst, instValueOf,
                 instValueCopy, instJSONCopy, pairV, memoV, histV>>


\* ------------------------------------------------------------- phase C
\* for (let i = 0; i < objects.length; i++): the two copies of the sample.
CopySample ==
  /\ pc = "loop"
  /\ IF i < Length
     THEN /\ objectCopy1' = JSONParse(JSONStringify(objects.items[i + 1]))
          /\ objectCopy2' = JSONParse(JSONStringify(objects.items[i + 1]))
          /\ touched' = touched \cup { i }
          /\ Goto("fromJS")
          /\ UNCHANGED j
     ELSE /\ j' = 0
          /\ Goto("pairs")
          /\ UNCHANGED <<objectCopy1, objectCopy2, touched>>
  /\ UNCHANGED <<inputV, objects, setupV, probeV, i, inst, instValueOf, instValueCopy,
                 instJSONCopy, k, objectJ, objectK, memoV, calls, fromJSLog>>

CheckInputPreserved ==
  /\ pc = "fromJS"
  /\ \E r \in FromJSAnswers(objectCopy1, ContextArg("sample")) :
       /\ fromJSMemo' = Learned(objectCopy1, ContextArg("sample"), r)
       /\ calls' = calls + 1
       /\ fromJSLog' = Logged("sample")
       /\ IF r.throws
          THEN /\ Throw(Failure("thrown by fromJS"))
               /\ UNCHANGED <<inst, objectCopy1>>
          ELSE /\ inst' = InstOf(r)
               /\ objectCopy1' = r.mut
               /\ Check(CheckId("input", i, -1), r.mut = objectCopy2,
                        Failure("fromJS function modified its input :-("), "instanceOf")
  /\ UNCHANGED <<inputV, objects, setupV, probeV, i, objectCopy2, instValueOf, instValueCopy,
                 instJSONCopy, pairV, toJSMemo, toJSONMemo, ctorMemo, answers, touched>>

CheckInstanceOf ==
  /\ pc = "instanceOf"
  /\ Check(CheckId("instanceOf", i, -1), inst.isInst,
           Tagged("fromJS did not return an instance", i), "toString")
  /\ UNCHANGED <<inputV, objects, setupV, probeV, sampleV, pairV, memoV, histV>>

\* An expectation on one boolean answer of inst: the call, then the check.
CheckAnswer(probe, id, want, msg, next, ncalls) ==
  /\ \E b \in BoolAnswers(probe, inst.name) :
       /\ answers' = Told(probe, inst.name, b)
       /\ Check(CheckId(id, i, -1), b = want, Tagged(msg, i), next)
  /\ calls' = calls + ncalls
  /\ UNCHANGED <<inputV, objects, setupV, probeV, i, objectCopy1, objectCopy2, inst,
                 instValueCopy, instJSONCopy, pairV, fromJSMemo, toJSMemo, toJSONMemo,
                 ctorMemo, fromJSLog, touched>>

CheckToString ==
  /\ pc = "toString"
  /\ CheckAnswer("toStringIsString", "toString()", TRUE, "toString() must return a string",
                 "equalsNull", 1)
  /\ UNCHANGED instValueOf

CheckEqualsNull ==
  /\ pc = "equalsNull"
  /\ CheckAnswer("equalsNull", "equals(null)", FALSE, "equals(null) should be false",
                 "equalsArray", 1)
  /\ UNCHANGED instValueOf

CheckEqualsArray ==
  /\ pc = "equalsArray"
  /\ CheckAnswer("equalsArray", "equals([])", FALSE, "equals([]) should be false",
                 "fixedPoint", 1)
  /\ UNCHANGED instValueOf

\* FixedPointExpected, always comparing with the first sample.
FixedPointExpected_first(idx) == objects.items[1]

\* The value inst.toJS() is compared with.
FixedPointExpected(idx) == objects.items[idx + 1]

CheckFixedPoint ==
  /\ pc = "fixedPoint"
  /\ \E v \in ToJSAnswers(inst.name) :
       /\ toJSMemo' = [toJSMemo EXCEPT ![inst.name] = v]
       /\ Check(CheckId("fixedPoint", i, -1), v = FixedPointExpected(i),
                Tagged("fromJS(obj).toJS() was not a fixed point (did not deep equal obj)", i),
                "equalsValueOf")
  /\ calls' = calls + 1
  /\ UNCHANGED <<inputV, objects, setupV, probeV, sampleV, pairV, fromJSMemo, toJSONMemo,
                 ctorMemo, answers, fromJSLog, touched>>

\* The value form of an instance.
ValueOf(x) == x.name

CheckEqualsValueOf ==
  /\ pc = "equalsValueOf"
  /\ instValueOf' = ValueOf(inst)
  /\ CheckAnswer("equalsValueOf", "equals(valueOf())", FALSE, "inst.equals(inst.valueOf())",
                 "equalsLazyCopy", 2)

\* AfterLazyCopy, never taking the newThrows branch.
AfterLazyCopy_ignored == "valueCopy"

\* if (newThrows) ... else ...
AfterLazyCopy == IF Truthy(newThrows) THEN "newThrows" ELSE "valueCopy"

CheckEqualsLazyCopy ==
  /\ pc = "equalsLazyCopy"
  /\ CheckAnswer("equalsLazyCopy", "equals(lazyCopy)", FALSE,
                 "inst.equals(*an object with the same values*)",
                 AfterLazyCopy, 1)
  /\ UNCHANGED instValueOf

CheckNewThrows ==
  /\ pc = "newThrows"
  /\ \E c \in CtorAnswers(instValueOf) :
       /\ ctorMemo' = [ctorMemo EXCEPT ![instValueOf] = c]
       /\ Check(CheckId("newThrows", i, -1), c.outcome = "throwsError",
                Tagged("new did not throw as indicated", i), "jsonCopy")
  /\ calls' = calls + 1
  /\ UNCHANGED <<inputV, objects, setupV, probeV, sampleV, pairV, fromJSMemo, toJSMemo,
                 toJSONMemo, answers, fromJSLog, touched>>

CheckValueCopyEquals ==
  /\ pc = "valueCopy"
  /\ \E c \in CtorAnswers(instValueOf) :
       /\ ctorMemo' = [ctorMemo EXCEPT ![instValueOf] = c]
       /\ IF c.outcome # "returns"
          THEN /\ Throw(Failure("thrown by the constructor"))
               /\ calls' = calls + 1
               /\ UNCHANGED instValueCopy
          ELSE /\ instValueCopy' = [isInst |-> TRUE, name |-> c.name]
               /\ calls' = calls + 2
               /\ Check(CheckId("valueCopy", i, -1),
                        Equals(ClassFn.equalsKind, inst, [isInst |-> TRUE, name |-> c.name]),
                        Tagged("new().toJS() is not equal to the original", i), "valueCopyToJS")
  /\ UNCHANGED <<inputV, objects, setupV, probeV, i, objectCopy1, objectCopy2, inst, instValueOf,
                 instJSONCopy, pairV, fromJSMemo, toJSMemo, toJSONMemo, answers, fromJSLog,
                 touched>>

\* copy.toJS() against inst.toJS(): both calls, then the comparison.
CheckCopyToJS(copy, id, msg, next) ==
  /\ \E v \in ToJSAnswers(copy.name), w \in ToJSAnswers(inst.name) :
       /\ copy.name = inst.name => v = w
       /\ toJSMemo' = [toJSMemo EXCEPT ![copy.name] = v, ![inst.name] = w]
       /\ Check(CheckId(id, i, -1), v = w, Tagged(msg, i), next)
  /\ calls' = calls + 2
  /\ UNCHANGED <<inputV, objects, setupV, probeV, objectCopy1, objectCopy2, inst, instValueOf,
                 instValueCopy, instJSONCopy, pairV, fromJSMemo, toJSONMemo, ctorMemo, answers,
                 fromJSLog, touched>>

CheckValueCopyToJS ==
  /\ pc = "valueCopyToJS"
  /\ CheckCopyToJS(instValueCopy, "valueCopy.toJS()",
                   "new(valueOf()).toJS() returned something bad", "jsonCopy")
  /\ UNCHANGED i

CheckJSONCopyEquals ==
  /\ pc = "jsonCopy"
  /\ \E t \in ToJSONAnswers(inst.name) :
       /\ toJSONMemo' = [toJSONMemo EXCEPT ![inst.name] = t]
       /\ \E r \in FromJSAnswers(JSONParse(JSONStringify(t)), ContextArg("jsonCopy")) :
            /\ fromJSMemo' = Learned(JSONParse(JSONStringify(t)), ContextArg("jsonCopy"), r)
            /\ fromJSLog' = Logged("jsonCopy")
            /\ IF r.throws
               THEN /\ Throw(Failure("thrown by fromJS"))
                    /\ calls' = calls + 2
                    /\ UNCHANGED instJSONCopy
               ELSE /\ instJSONCopy' = InstOf(r)
                    /\ calls' = calls + 3
                    /\ Check(CheckId("jsonCopy", i, -1),
                             Equals(ClassFn.equalsKind, inst, InstOf(r)),
                             Tagged("JS Copy does not equal original", i), "jsonCopyToJS")
  /\ UNCHANGED <<inputV, objects, setupV, probeV, i, objectCopy1, objectCopy2, inst, instValueOf,
                 instValueCopy, pairV, toJSMemo, ctorMemo, answers, touched>>

CheckJSONCopyToJS ==
  /\ pc = "jsonCopyToJS"
  /\ CheckCopyToJS(instJSONCopy, "jsonCopy.toJS()",
                   "fromJS(JSON.parse(JSON.stringify())).toJS() returned something bad", "loop")
  /\ i' = IF pc' = "loop" THEN i + 1 ELSE i


\* ------------------------------------------------------------- phase D
\* PairExpected, expecting every pair to be equal.
PairExpected_always(jj, kk) == TRUE

\* PairExpected, expecting samples of equal value to be equal.
PairExpected_byValue(jj, kk) == objects.items[jj + 1] = objects.items[kk + 1]

\* What objectJ.equals(objectK) is expected to be.
PairExpected(jj, kk) == jj = kk

PairFailure(jj, kk) == [msg |-> "Equality of objects was wrong", where |-> -1, pair |-> <<jj, kk>>]

\* for (let j = 0; j < objects.length; j++): objectJ, or the return.
PairsOuter ==
  /\ pc = "pairs"
  /\ IF j < Length
     THEN \E r \in FromJSAnswers(objects.items[j + 1], ContextArg("pairJ")) :
            /\ fromJSMemo' = Learned(objects.items[j + 1], ContextArg("pairJ"), r)
            /\ calls' = calls + 1
            /\ fromJSLog' = Logged("pairJ")
            /\ touched' = touched \cup { j }
            /\ IF r.throws
               THEN /\ Throw(Failure("thrown by fromJS"))
                    /\ UNCHANGED <<objects, objectJ, k>>
               ELSE /\ objectJ' = InstOf(r)
                    /\ objects' = SetItem(j, r.mut)
                    /\ k' = j
                    /\ Goto("pair")
     ELSE /\ Goto("done")
          /\ UNCHANGED <<objects, objectJ, k, fromJSMemo, calls, fromJSLog, touched>>
  /\ UNCHANGED <<inputV, setupV, probeV, sampleV, j, objectK, toJSMemo, toJSONMemo, ctorMemo,
                 answers>>

\* for (let k = j; k < objects.length; k++): objectK and the expectation.
CheckPair ==
  /\ pc = "pair"
  /\ IF k < Length
     THEN \E r \in FromJSAnswers(objects.items[k + 1], ContextArg("pairK")) :
            /\ fromJSMemo' = Learned(objects.items[k + 1], ContextArg("pairK"), r)
            /\ calls' = calls + (IF r.throws THEN 1 ELSE 2)
            /\ fromJSLog' = Logged("pairK")
            /\ touched' = touched \cup { k }
            /\ IF r.throws
               THEN /\ Throw(Failure("thrown by fromJS"))
                    /\ UNCHANGED <<objects, objectK, k>>
               ELSE /\ objectK' = InstOf(r)
                    /\ objects' = SetItem(k, r.mut)
                    /\ Check(CheckId("pair", j, k),
                             Equals(ClassFn.equalsKind, objectJ, InstOf(r)) = PairExpected(j, k),
                             PairFailure(j, k), "pair")
                    /\ k' = IF pc' = "pair" THEN k + 1 ELSE k
            /\ UNCHANGED j
     ELSE /\ j' = j + 1
          /\ Goto("pairs")
          /\ UNCHANGED <<objects, objectK, k, fromJSMemo, calls, fromJSLog, touched>>
  /\ UNCHANGED <<inputV, setupV, probeV, sampleV, objectJ, toJSMemo, toJSONMemo, ctorMemo,
                 answers>>

\* ------------------------------------------------------------- specification
Classes(properties) ==
  [isFunction : BOOLEAN, name : ClassNames, hasFromJS : BOOLEAN,
   PROPERTIES : properties, equalsKind : EqualsKinds]

InitWith(classes, objectsArgs, optionsArgs) ==
  /\ ClassFn \in classes
  /\ objects \in objectsArgs
  /\ options \in optionsArgs
  /\ objects0 = objects
  /\ pc = "start"
  /\ newThrows = "undefined"
  /\ context = "undefined"
  /\ className = <<>>
  /\ instanceName = <<>>
  /\ instance = NoInst
  /\ m = 1
  /\ i = 0
  /\ objectCopy1 = -1
  /\ objectCopy2 = -1
  /\ inst = NoInst
  /\ instValueOf = -1
  /\ instValueCopy = NoInst
  /\ instJSONCopy = NoInst
  /\ j = 0
  /\ k = 0
  /\ objectJ = NoInst
  /\ objectK = NoInst
  /\ failure = NoFailure
  /\ fromJSMemo = [key \in Vals \X Contexts |-> UnknownFromJS]
  /\ toJSMemo = [n \in Vals |-> -1]
  /\ toJSONMemo = [n \in Vals |-> -1]
  /\ ctorMemo = [n \in Vals |-> [outcome |-> "unknown", name |-> -1]]
  /\ answers = [key \in Probes \X Vals |-> "unknown"]
  /\ calls = 0
  /\ fromJSLog = {}
  /\ touched = {}
  /\ nchecks = 0
  /\ lastCheck = NoCheck

\* PROPERTIES of the classes of Init: absent, not an array, a list of one
\* well-formed descriptor, a list of one descriptor with an unrecognized key.
SomeProperties ==
  { NoProperties, [kind |-> "notArray", list |-> <<>>],
    [kind |-> "array", list |-> << [keys |-> <<"name", "type">>, nameIsString |-> TRUE] >>],
    [kind |-> "array", list |-> << [keys |-> <<"bogus">>, nameIsString |-> FALSE] >>] }

\* Every class shape, sample array and options argument within the bounds.
Init == InitWith(Classes(SomeProperties), ObjectsArgs, OptionsArgs)

Next ==
  \/ CheckClassFn
  \/ CheckObjects
  \/ CheckClassName
  \/ CheckStaticMethods
  \/ ProbeInstance
  \/ CheckInstanceMethod
  \/ CheckProperties
  \/ CopySample
  \/ CheckInputPreserved
  \/ CheckInstanceOf
  \/ CheckToString
  \/ CheckEqualsNull
  \/ CheckEqualsArray
  \/ CheckFixedPoint
  \/ CheckEqualsValueOf
  \/ CheckEqualsLazyCopy
  \/ CheckNewThrows
  \/ CheckValueCopyEquals
  \/ CheckValueCopyToJS
  \/ CheckJSONCopyEquals
  \/ CheckJSONCopyToJS
  \/ PairsOuter
  \/ CheckPair

Spec == Init /\ [][Next]_vars

\* One well-formed class and one sample, every PROPERTIES list within the bounds.
InitProps ==
  InitWith({ c \in Classes(AllProperties) :
               c.isFunction /\ c.hasFromJS /\ c.name # <<>> /\ c.equalsKind = "byName" },
           { [isArray |-> TRUE, items |-> <<0>>] },
           { o \in OptionsArgs : o.context = "undefined" })

SpecProps == InitProps /\ [][Next]_vars


\* ------------------------------------------------------------- properties
Returned == pc = "done" /\ failure = NoFailure

Indices == 0..(Length - 1)

\* What the candidate's fromJS answered for the sample at idx, as it is now.
FromJSOf(idx) == fromJSMemo[<<objects.items[idx + 1], options.context>>]

IsFixedPoint(idx) ==
  /\ FromJSOf(idx).known
  /\ ~FromJSOf(idx).throws
  /\ toJSMemo[FromJSOf(idx).name] = objects.items[idx + 1]

FixedPointFailure(idx) ==
  Tagged("fromJS(obj).toJS() was not a fixed point (did not deep equal obj)", idx)

\* C1: a normal return implies that every sample is a fixed point of
\* fromJS(...).toJS(); the check of sample i raises the fixed-point failure
\* tagged i exactly when sample i is not one; and a fixed-point failure names
\* the smallest index whose sample is not a fixed point.
C1_FixedPoint ==
  /\ Returned => \A idx \in Indices : IsFixedPoint(idx)
  /\ lastCheck.id = "fixedPoint" =>
       (failure = FixedPointFailure(lastCheck.a)) = ~IsFixedPoint(lastCheck.a)
  /\ failure.msg = FixedPointFailure(0).msg =>
       /\ failure.where \in Indices
       /\ ~IsFixedPoint(failure.where)
       /\ \A idx \in 0..(failure.where - 1) : IsFixedPoint(idx)

C1_Witness == pc = "done" /\ Length = MaxLen /\ failure = FixedPointFailure(Length - 1)

PreconditionsHold ==
  ClassFn.isFunction /\ objects.isArray /\ Length # 0 /\ ClassFn.name # <<>>

NothingAsked ==
  /\ \A key \in DOMAIN fromJSMemo : ~fromJSMemo[key].known
  /\ \A n \in Vals : toJSMemo[n] = -1 /\ toJSONMemo[n] = -1 /\ ctorMemo[n].outcome = "unknown"
  /\ \A key \in DOMAIN answers : answers[key] = "unknown"

\* C2: for a class without a callable fromJS (and arguments that pass the
\* three preconditions) the function raises 'fromJS should exist', and no
\* candidate operation has been invoked and no sample read or copied by then.
C2_NoFromJS ==
  /\ (pc = "done" /\ ~ClassFn.hasFromJS /\ PreconditionsHold) =>
       failure = Failure("fromJS should exist")
  /\ ~ClassFn.hasFromJS =>
       /\ calls = 0
       /\ touched = {}
       /\ fromJSLog = {}
       /\ NothingAsked
       /\ objects = objects0
       /\ objectCopy1 = -1 /\ objectCopy2 = -1 /\ instance = NoInst

C2_Witness ==
  pc = "done" /\ failure = Failure("fromJS should exist") /\ Length = MaxLen /\ calls = 0

\* equals between the instances built from the samples at jj and kk.
EqualsOfSamples(jj, kk) ==
  Equals(ClassFn.equalsKind, InstOf(FromJSOf(jj)), InstOf(FromJSOf(kk)))

\* C3 (as claimed): after a normal return (of a run in which fromJS left the
\* samples as they were), for every ordered pair (j, k) of sample indices,
\* pairs with j > k included, equals is true exactly when j = k.
C3_AllOrderedPairs ==
  (Returned /\ objects = objects0) =>
    \A jj, kk \in Indices : EqualsOfSamples(jj, kk) = (jj = kk)

\* C3 (amended): after a normal return, for every pair (j, k) of sample
\* indices with j <= k, equals of the instance of j with the instance of k is
\* true exactly when j = k.
C3_UpperPairs ==
  Returned => \A jj, kk \in Indices : jj <= kk => EqualsOfSamples(jj, kk) = (jj = kk)

C3_Witness ==
  /\ Returned
  /\ Length = MaxLen
  /\ \E jj, kk \in Indices : jj > kk /\ EqualsOfSamples(jj, kk)

\* C4 (as claimed): a normal return implies that no fromJS call of the run
\* changed the value it was given and that the caller's samples are as they
\* were passed.
C4_NoMutation ==
  Returned =>
    /\ objects = objects0
    /\ \A key \in DOMAIN fromJSMemo :
         fromJSMemo[key].known => fromJSMemo[key].mut = key[1]

\* C5: sample i gets past step 9 only if newThrows is truthy and the
\* constructor raised on inst.valueOf(), or newThrows is not truthy and the
\* constructor returned a copy that inst equals and whose toJS() is
\* inst.toJS(); with newThrows set, a constructor that returns makes the
\* function raise 'did not throw' for that sample.
C5_ValueFormRoundTrip ==
  /\ pc = "jsonCopy" =>
       IF Truthy(options.newThrows)
       THEN ctorMemo[ValueOf(inst)].outcome \in { "throwsError", "throwsOther" }
       ELSE /\ ctorMemo[ValueOf(inst)].outcome = "returns"
            /\ instValueCopy = [isInst |-> TRUE, name |-> ctorMemo[ValueOf(inst)].name]
            /\ Equals(ClassFn.equalsKind, inst, instValueCopy)
            /\ toJSMemo[inst.name] # -1
            /\ toJSMemo[instValueCopy.name] = toJSMemo[inst.name]
  /\ (Truthy(options.newThrows) /\ \E n \in Vals : ctorMemo[n].outcome = "returns") =>
       /\ pc = "done"
       /\ failure = Tagged("new did not throw as indicated", i)
       /\ ctorMemo[ValueOf(inst)].outcome = "returns"

C5_Witness ==
  /\ Returned
  /\ Truthy(options.newThrows)
  /\ Length = MaxLen
  /\ \A idx \in Indices : ctorMemo[FromJSOf(idx).name].outcome = "throwsError"

Sites == { "probe", "sample", "jsonCopy", "pairJ", "pairK" }

\* C6: every fromJS call, at every call site, passes options.context (undefined
\* when options is omitted); and when the candidate's fromJS throws, that is
\* what the function raises, at once.
C6_ContextForwarded ==
  /\ \A e \in fromJSLog : e.ctx = options.context
  /\ \A key \in DOMAIN fromJSMemo : fromJSMemo[key].known => key[2] = options.context
  /\ ~options.given => \A e \in fromJSLog : e.ctx = "undefined"
  /\ Returned => { e.site : e \in fromJSLog } = Sites
  /\ (\E key \in DOMAIN fromJSMemo : fromJSMemo[key].known /\ fromJSMemo[key].throws) =>
       pc = "done" /\ failure = Failure("thrown by fromJS")

C6_Witness ==
  /\ Returned
  /\ options.context = "weights"
  /\ { e.site : e \in fromJSLog } = Sites
  /\ Length = MaxLen

PhaseCMessages ==
  { "fromJS function modified its input :-(",
    "fromJS did not return an instance",
    "toString() must return a string",
    "equals(null) should be false",
    "equals([]) should be false",
    "fromJS(obj).toJS() was not a fixed point (did not deep equal obj)",
    "inst.equals(inst.valueOf())",
    "inst.equals(*an object with the same values*)",
    "new did not throw as indicated",
    "new().toJS() is not equal to the original",
    "new(valueOf()).toJS() returned something bad",
    "JS Copy does not equal original",
    "fromJS(JSON.parse(JSON.stringify())).toJS() returned something bad" }

\* C7 (as claimed): every failure the function raises in the per-sample phase
\* carries the tag of the sample being checked.
C7_Tagged ==
  failure.msg \in PhaseCMessages => failure.where = i /\ i \in Indices

\* C8 (as claimed): when PROPERTIES is a list and its check passes, every key
\* of every descriptor is recognized and every descriptor, one without keys
\* included, has a name that is a string.
C8_EveryDescriptorNamed ==
  (ClassFn.PROPERTIES.kind = "array" /\ pc = "loop") =>
    \A d \in 1..Len(ClassFn.PROPERTIES.list) :
      /\ \A q \in 1..Len(ClassFn.PROPERTIES.list[d].keys) :
           ClassFn.PROPERTIES.list[d].keys[q] \in PROPERTY_KEYS
      /\ NameIsString(ClassFn.PROPERTIES.list[d])


PreOrder ==
  <<"ClassFn", "objects", "name", "fromJS", "valueOf", "toString", "toJS", "toJSON", "equals",
    "PROPERTIES">>

SampleOrder ==
  <<"input", "instanceOf", "toString()", "equals(null)", "equals([])", "fixedPoint",
    "equals(valueOf())", "equals(lazyCopy)">> \o
  (IF Truthy(options.newThrows) THEN <<"newThrows">> ELSE <<"valueCopy", "valueCopy.toJS()">>) \o
  <<"jsonCopy", "jsonCopy.toJS()">>

\* The number of pairs (j, k), j <= k, before the pair (jj, kk) in the order
\* increasing j, then increasing k.
RECURSIVE PairsBefore(_, _)
PairsBefore(jj, kk) ==
  IF jj = 0 THEN kk ELSE (Length - (jj - 1)) + PairsBefore(jj - 1, kk - 1)

\* The n-th check of a run, in the order preconditions, phase A, phase B,
\* phase C sample by sample, phase D pair by pair.
ExpectedCheck(n) ==
  IF n <= Len(PreOrder) THEN CheckId(PreOrder[n], -1, -1)
  ELSE LET q == n - Len(PreOrder) - 1
           per == Len(SampleOrder)
       IN IF q < Length * per
          THEN CheckId(SampleOrder[(q % per) + 1], q \div per, -1)
          ELSE LET pr == CHOOSE pr \in Indices \X Indices :
                           pr[1] <= pr[2] /\ PairsBefore(pr[1], pr[2]) = q - Length * per
               IN CheckId("pair", pr[1], pr[2])

\* The check that raises a message.
CheckOfMessage(msg) ==
  CASE msg = "ClassFn must be a constructor function" -> "ClassFn"
    [] msg = "objects must be a non-empty array of js to test" -> "objects"
    [] msg = "Class must have a name of at least 1 letter" -> "name"
    [] msg = "fromJS should exist" -> "fromJS"
    [] msg = "Instance should implement valueOf" -> "valueOf"
    [] msg = "Instance should implement toString" -> "toString"
    [] msg = "Instance should have a toJS function" -> "toJS"
    [] msg = "Instance should have a toJSON function" -> "toJSON"
    [] msg = "Instance should have an equals function" -> "equals"
    [] msg \in { "PROPERTIES should be an array", "expected PROPERTY_KEYS to include the key",
                 "expected property.name to be a string" } -> "PROPERTIES"
    [] msg = "fromJS function modified its input :-(" -> "input"
    [] msg = "fromJS did not return an instance" -> "instanceOf"
    [] msg = "toString() must return a string" -> "toString()"
    [] msg = "equals(null) should be false" -> "equals(null)"
    [] msg = "equals([]) should be false" -> "equals([])"
    [] msg = "fromJS(obj).toJS() was not a fixed point (did not deep equal obj)" -> "fixedPoint"
    [] msg = "inst.equals(inst.valueOf())" -> "equals(valueOf())"
    [] msg = "inst.equals(*an object with the same values*)" -> "equals(lazyCopy)"
    [] msg = "new did not throw as indicated" -> "newThrows"
    [] msg = "new().toJS() is not equal to the original" -> "valueCopy"
    [] msg = "new(valueOf()).toJS() returned something bad" -> "valueCopy.toJS()"
    [] msg = "JS Copy does not equal original" -> "jsonCopy"
    [] msg = "fromJS(JSON.parse(JSON.stringify())).toJS() returned something bad" -> "jsonCopy.toJS()"
    [] msg = "Equality of objects was wrong" -> "pair"
    [] OTHER -> "thrown"

\* C9: the checks run in the order preconditions, phase A, phase B, phase C
\* (samples in increasing index, the steps of a sample in the listed order),
\* phase D (pairs in increasing j, then increasing k >= j); the failure raised
\* by a check is that of the last check that ran, every check before it
\* having passed; and once a failure is raised nothing more runs.
C9_FailFastInOrder ==
  /\ nchecks > 0 => lastCheck = ExpectedCheck(nchecks)
  /\ (failure # NoFailure /\ CheckOfMessage(failure.msg) # "thrown") =>
       /\ CheckOfMessage(failure.msg) = lastCheck.id
       /\ failure.where # -1 => failure.where = lastCheck.a
       /\ failure.pair # <<>> => failure.pair = <<lastCheck.a, lastCheck.b>>
  /\ failure # NoFailure => pc = "done" /\ ~ENABLED Next
  /\ Returned =>
       nchecks = Len(PreOrder) + Length * Len(SampleOrder) + PairsBefore(Length, Length)

C9_Witness ==
  /\ pc = "done"
  /\ Length = MaxLen
  /\ failure = PairFailure(Length - 2, Length - 1)
  /\ ClassFn.PROPERTIES.kind = "array"

\* The caller's samples at jj and kk are the same value.
Duplicate(jj, kk) == jj < kk /\ objects0.items[jj + 1] = objects0.items[kk + 1]

HasDuplicate == \E jj, kk \in Indices : Duplicate(jj, kk)

PairLE(a, b) == a[1] < b[1] \/ (a[1] = b[1] /\ a[2] <= b[2])

\* The first pair, in the order of phase D, that satisfies P.
FirstPair(P(_, _)) ==
  CHOOSE pr \in Indices \X Indices :
    /\ P(pr[1], pr[2])
    /\ \A other \in Indices \X Indices : P(other[1], other[2]) => PairLE(pr, other)

\* Phases A to C passed: the function got to phase D.
PassedAToC == pc = "done" /\ (failure = NoFailure \/ failure.msg = PairFailure(0, 0).msg)

\* C10 (as claimed): with a duplicate among the samples (every equals of the
\* model is true of two instances built from the same value), a run that
\* passes phases A to C, and in which fromJS left the samples as they were,
\* raises the equality failure of the first duplicate pair.
C10_FirstDuplicatePair ==
  (PassedAToC /\ HasDuplicate /\ objects = objects0) =>
    failure = PairFailure(FirstPair(Duplicate)[1], FirstPair(Duplicate)[2])

EqualPair(jj, kk) == jj < kk /\ EqualsOfSamples(jj, kk)

\* C10 (amended): with a duplicate among the samples, a run that passes
\* phases A to C never returns normally: it raises the equality failure of
\* the first pair (j, k), j < k, whose instances compare equal, which is the
\* first duplicate pair or a pair before it; it is the first duplicate pair
\* when equals is false of every two instances built from different samples.
C10_DuplicatesRejected ==
  (PassedAToC /\ HasDuplicate) =>
    /\ \E jj, kk \in Indices : EqualPair(jj, kk)
    /\ failure = PairFailure(FirstPair(EqualPair)[1], FirstPair(EqualPair)[2])
    /\ PairLE(FirstPair(EqualPair), FirstPair(Duplicate))
    /\ (\A jj, kk \in Indices : EqualPair(jj, kk) => Duplicate(jj, kk)) =>
         failure = PairFailure(FirstPair(Duplicate)[1], FirstPair(Duplicate)[2])

C10_Witness ==
  /\ PassedAToC
  /\ HasDuplicate
  /\ Length = MaxLen
  /\ FirstPair(Duplicate) = <<Length - 2, Length - 1>>
  /\ failure = PairFailure(Length - 2, Length - 1)

====
